---- MODULE Spec2Model ----
(***************************************************************************)
(* A model of gke-cluster.py: one invocation of the command line tool      *)
(* (main) running one of create / delete / scale / list against the cloud  *)
(* control plane.  Every client call is one step of the program; between   *)
(* two steps the provider may advance any operation that is in flight.     *)
(* A client call may raise; time.sleep is a step of its own.  Printed      *)
(* narration is left out, except the error line that tells one failure     *)
(* from another (message).                                                 *)
(***************************************************************************)
EXTENDS Integers, Sequences, FiniteSets, TLC

\* ------------------------------------------------------------ bounds
\* node pools the cluster may have, disks the zone may list
MaxPools == 2
MaxDisks == 3

\* ------------------------------------------------------------ names
\* Python's None in a slot that otherwise holds a string
None == "None"

\* args.name: names that are searched for as substrings are sequences of
\* characters
cluster_name == <<"c", "1">>

\* f"{cluster_name}-nat-config" and a NAT of some other cluster
nat_name == cluster_name \o <<"-nat-config">>
OtherNat == <<"c", "2", "-nat-config">>

\* the node pools a cluster can have, in the order the provider lists them
PoolUniverse == <<"default-pool", "ml-pool", "pool-3", "pool-4">>
GhostPool == "ghost-pool"

\* the disks the zone can hold: two that carry the cluster name (one with
\* the gke- prefix, one without), two that do not
DiskUniverse ==
  << <<"g", "k", "e", "-", "c", "1", "-", "a">>,
     <<"x", "c", "1">>,
     <<"c", "2">>,
     <<"g", "k", "e", "-", "c">> >>

DiskIdx(d) == CHOOSE i \in 1..Len(DiskUniverse) : DiskUniverse[i] = d

TargetCounts == {0, 5}

ClusterStatuses == {"RUNNING", "PROVISIONING", "ERROR", "NOT_FOUND"}

\* ------------------------------------------------------------ operations
\* one key per mutation the program can submit: <<client call, member>>
CREATE_CLUSTER == <<"create_cluster", 0>>
INSERT_ROUTER == <<"insert_router", 0>>
DELETE_CLUSTER == <<"delete_cluster", 0>>
PATCH_ROUTER == <<"patch_router", 0>>
DELETE_ROUTER == <<"delete_router", 0>>
CREATE_NAT == <<"nats_create", 0>>
DiskOp(i) == <<"delete_disk", i>>
PoolOp(i) == <<"set_node_pool_size", i>>

DiskOps == {DiskOp(i) : i \in 1..MaxDisks}
PoolOps == {PoolOp(i) : i \in 1..MaxPools}

\* container_v1 operations report ABORTING, compute_v1 operations do not
ContainerOps == {CREATE_CLUSTER, DELETE_CLUSTER} \cup PoolOps
ComputeOps == {INSERT_ROUTER, PATCH_ROUTER, DELETE_ROUTER} \cup DiskOps
OpKeys == ContainerOps \cup ComputeOps

NotSubmitted == [status |-> "NONE", error |-> FALSE]
Pending == [status |-> "PENDING", error |-> FALSE]

\* a local that no statement has bound yet, where a record is expected
Unbound == [bound |-> FALSE, nats |-> {}]

VARIABLES
  args,              \* the parsed command line: action, nodes, pool
  clusterStatus,     \* provider: the cluster's status (NOT_FOUND: no cluster)
  node_pools,        \* provider: the cluster's node pools
  zoneDisks,         \* provider: the disks of the zone
  routerExists,      \* provider: the router <cluster>-nat-router exists
  routerNats,        \* provider: the names of its NAT configs
  ops,               \* provider: every operation's status and error
  pc,                \* the program's position
  pools_to_scale,    \* scale_cluster: local
  operations,        \* scale_cluster: local, the (operation, pool) pairs
  operation_status,  \* scale_cluster: local, pool |-> done, success
  pool_name,         \* scale_cluster: parameter, rebound by the poll loop
  i,                 \* the index of the running for loop
  cluster_disks,     \* delete_cluster: local
  nat_success,       \* create_gke_cluster: local
  existing_router,   \* create_cloud_nat: local, bound when the get answers
  result,            \* what the intent's function returned
  exit_code,         \* the process's exit status (-1: still running)
  message,           \* the last error line printed
  submitted,         \* history: the mutations submitted, in order
  seen,              \* history: how each operation's poll loop ended
  polled             \* history: the pools polled in the current round

env == <<clusterStatus, node_pools, zoneDisks, routerExists, routerNats>>
scaleLocals == <<pools_to_scale, operations, operation_status, pool_name>>
natLocals == <<nat_success, existing_router>>
outcome == <<result, exit_code, message>>
vars == <<args, env, ops, pc, scaleLocals, i, cluster_disks, natLocals,
          outcome, submitted, seen, polled>>

\* ------------------------------------------------------------ helpers
\* Python truthiness of a str-or-None
Truthy(s) == s \notin {None, ""}

\* `sub in s` on strings
Contains(s, sub) ==
  \E k \in 0..(Len(s) - Len(sub)) : SubSeq(s, k + 1, k + Len(sub)) = sub

\* faulty variant: only the gke-<cluster> pattern of the comment is matched
IsClusterDisk_GkeOnly(d) == Contains(d, <<"g", "k", "e", "-">> \o cluster_name)

\* the disk filter of delete_cluster
IsClusterDisk(d) ==
  Contains(d, <<"g", "k", "e", "-">> \o cluster_name) \/ Contains(d, cluster_name)

ClusterDisks(disks) == SelectSeq(disks, IsClusterDisk)

\* [p for p in cluster.node_pools if p.name == pool_name]
FilterPools(pools, name) == SelectSeq(pools, LAMBDA p : p = name)

PoolIdx(p) == CHOOSE k \in 1..Len(PoolUniverse) : PoolUniverse[k] = p

\* all(status["done"] for status in operation_status.values())
AllDone(os) == \A p \in DOMAIN os : os[p].done

\* faulty variant: any() for all()
AllSuccess_Any(os) == \E p \in DOMAIN os : os[p].success = "True"

\* faulty variant: a group without members is not a success
AllSuccess_NonEmpty(os) == DOMAIN os # {} /\ \A p \in DOMAIN os : os[p].success = "True"

\* all(status["success"] for status in operation_status.values())
AllSuccess(os) == \A p \in DOMAIN os : os[p].success = "True"

Submit(k, n) == Append(submitted, [op |-> k, node_count |-> n])

Submitted(k) == \E n \in 1..Len(submitted) : submitted[n].op = k

\* ------------------------------------------------------------ Init
Init ==
  /\ \E a \in {"create", "delete", "list", "scale"} :
     \E n \in TargetCounts :
     \E p \in {None, "", GhostPool} \cup {PoolUniverse[k] : k \in 1..MaxPools} :
       /\ args = [action |-> a, nodes |-> n, pool |-> p]
       \* --nodes and --pool are read by scale alone
       /\ a # "scale" => n = 0 /\ p = None
  /\ clusterStatus \in ClusterStatuses
  /\ args.action \in {"create", "list"} => clusterStatus = "NOT_FOUND"
  /\ \E n \in 0..MaxPools : node_pools = SubSeq(PoolUniverse, 1, n)
  /\ (args.action # "scale" \/ clusterStatus = "NOT_FOUND") => node_pools = <<>>
  /\ \E S \in SUBSET (1..MaxDisks) :
       zoneDisks = SelectSeq(SubSeq(DiskUniverse, 1, MaxDisks),
                             LAMBDA d : DiskIdx(d) \in S)
  /\ args.action # "delete" => zoneDisks = <<>>
  /\ routerExists \in BOOLEAN
  /\ routerNats \in SUBSET {nat_name, OtherNat}
  /\ ~routerExists => routerNats = {}
  /\ args.action \in {"list", "scale"} => ~routerExists
  /\ ops = [k \in OpKeys |-> NotSubmitted]
  /\ pc = "main"
  /\ pools_to_scale = <<>>
  /\ operations = <<>>
  /\ operation_status = <<>>
  /\ pool_name = args.pool
  /\ i = 0
  /\ cluster_disks = <<>>
  /\ nat_success = None
  /\ existing_router = Unbound
  /\ result = None
  /\ exit_code = -1
  /\ message = None
  /\ submitted = <<>>
  /\ seen = [k \in OpKeys |-> "NONE"]
  /\ polled = {}

\* ------------------------------------------------------------ provider
\* The control plane moves an operation in flight one status forward.  A
\* container operation may abort; an operation that ends after an abort,
\* and any operation that ends in failure, is DONE with its error set.
ProviderAdvance(k) ==
  /\ pc # "exit"
  /\ \/ /\ ops[k].status = "PENDING"
        /\ ops' = [ops EXCEPT ![k].status = "RUNNING"]
     \/ /\ ops[k].status = "RUNNING"
        /\ \E e \in BOOLEAN : ops' = [ops EXCEPT ![k] = [status |-> "DONE", error |-> e]]
     \/ /\ ops[k].status = "RUNNING"
        /\ k \in ContainerOps
        /\ ops' = [ops EXCEPT ![k] = [status |-> "ABORTING", error |-> TRUE]]
     \/ /\ ops[k].status = "ABORTING"
        /\ ops' = [ops EXCEPT ![k].status = "DONE"]
  /\ UNCHANGED <<args, env, pc, scaleLocals, i, cluster_disks, natLocals,
                 outcome, submitted, seen, polled>>

\* ------------------------------------------------------------ main
\* a function of the program returns val to main, msg its error line
Return(val, msg) ==
  /\ result' = val
  /\ message' = msg
  /\ pc' = "main_check"
  /\ UNCHANGED exit_code

main_dispatch ==
  /\ pc = "main"
  /\ pc' = CASE args.action = "create" -> "cc_submit"
             [] args.action = "delete" -> "del_submit"
             [] args.action = "list" -> "ls_list"
             [] args.action = "scale" -> "sc_get"
  /\ UNCHANGED <<args, env, ops, scaleLocals, i, cluster_disks, natLocals,
                 outcome, submitted, seen, polled>>

\* if not success: sys.exit(1); list_clusters returns nothing to check
main_check ==
  /\ pc = "main_check"
  /\ exit_code' = IF args.action # "list" /\ result # "True" THEN 1 ELSE 0
  /\ pc' = "exit"
  /\ UNCHANGED <<args, env, ops, scaleLocals, i, cluster_disks, natLocals,
                 result, message, submitted, seen, polled>>

\* ------------------------------------------------------------ list_clusters
ls_list ==
  /\ pc = "ls_list"
  /\ \/ Return(None, None)
     \/ Return(None, "exception")
  /\ UNCHANGED <<args, env, ops, scaleLocals, i, cluster_disks, natLocals,
                 submitted, seen, polled>>

\* ------------------------------------------------------------ scale_cluster
\* faulty variant: the RUNNING check is dropped
ClusterReady_Always(status) == TRUE

\* cluster.status != container_v1.Cluster.Status.RUNNING
ClusterReady(status) == status = "RUNNING"

\* faulty variant: the pool filter is not applied
PoolsToScale_IgnoreFilter(pools, name) == pools

\* pools_to_scale after the filter
PoolsToScale(pools, name) ==
  IF Truthy(name) THEN FilterPools(pools, name) ELSE pools

\* faulty variant: the empty filter result is not checked
FilterMatchesNothing_Never(pts, name) == FALSE

\* if pool_name: ... if not pools_to_scale
FilterMatchesNothing(pts, name) == Truthy(name) /\ pts = <<>>

\* get_cluster, the RUNNING check and the pool filter
sc_get ==
  /\ pc = "sc_get"
  /\ \/ /\ Return("False", "cluster_not_found")
        /\ UNCHANGED <<pools_to_scale, i>>
     \/ /\ clusterStatus # "NOT_FOUND"
        /\ IF ~ClusterReady(clusterStatus)
             THEN /\ Return("False", "not_running")
                  /\ UNCHANGED <<pools_to_scale, i>>
             ELSE LET pts == PoolsToScale(node_pools, pool_name)
                  IN  IF FilterMatchesNothing(pts, pool_name)
                        THEN /\ Return("False", "pool_not_found")
                             /\ UNCHANGED <<pools_to_scale, i>>
                        ELSE /\ pools_to_scale' = pts
                             /\ i' = 1
                             /\ pc' = "sc_submit"
                             /\ UNCHANGED outcome
  /\ UNCHANGED <<args, env, ops, operations, operation_status, pool_name,
                 cluster_disks, natLocals, submitted, seen, polled>>

\* {pool_name: {"done": False, "success": None} for _, pool_name in operations}
NewOperationStatus(opers) ==
  [p \in {opers[k].pool : k \in 1..Len(opers)} |-> [done |-> FALSE, success |-> None]]

\* for node_pool in pools_to_scale: set_node_pool_size
sc_submit ==
  /\ pc = "sc_submit"
  /\ IF i > Len(pools_to_scale)
       THEN /\ operation_status' = NewOperationStatus(operations)
            /\ pc' = "sc_while"
            /\ UNCHANGED <<ops, operations, i, outcome, submitted>>
       ELSE LET k == PoolOp(PoolIdx(pools_to_scale[i]))
            IN  \/ /\ ops' = [ops EXCEPT ![k] = Pending]
                   /\ operations' = Append(operations, [op |-> k, pool |-> pools_to_scale[i]])
                   /\ submitted' = Submit(k, args.nodes)
                   /\ i' = i + 1
                   /\ UNCHANGED <<pc, operation_status, outcome>>
                \/ /\ Return("False", "exception")
                   /\ UNCHANGED <<ops, operations, operation_status, i, submitted>>
  /\ UNCHANGED <<args, env, pools_to_scale, pool_name, cluster_disks,
                 natLocals, seen, polled>>

\* while not all(status["done"] ...): the head of the poll loop
sc_while ==
  /\ pc = "sc_while"
  /\ IF AllDone(operation_status)
       THEN /\ pc' = "sc_result"
            /\ UNCHANGED <<i, polled>>
       ELSE /\ pc' = "sc_poll"
            /\ i' = 1
            /\ polled' = {}
  /\ UNCHANGED <<args, env, ops, scaleLocals, cluster_disks, natLocals,
                 outcome, submitted, seen>>

\* what one poll of a pool's operation records
Recorded(os, p, status) ==
  CASE status = "DONE" -> [os EXCEPT ![p] = [done |-> TRUE, success |-> "True"]]
    [] status = "ABORTING" -> [os EXCEPT ![p] = [done |-> TRUE, success |-> "False"]]
    [] OTHER -> os

\* faulty variant: the poll loop does not skip a resolved pool
MemberDone_Never(os, p) == FALSE

\* faulty variant: the test is inverted, the poll loop skips the pools that
\* are not resolved
MemberDone_Inverted(os, p) == ~os[p].done

\* if operation_status[pool_name]["done"]: continue
MemberDone(os, p) == os[p].done

\* for operation, pool_name in operations: one pass of the round
sc_poll ==
  /\ pc = "sc_poll"
  /\ IF i > Len(operations)
       THEN /\ pc' = "sc_round_end"
            /\ UNCHANGED <<operation_status, pool_name, i, outcome, seen, polled>>
       ELSE LET p == operations[i].pool
                k == operations[i].op
            IN  /\ pool_name' = p
                /\ IF MemberDone(operation_status, p)
                     THEN /\ i' = i + 1
                          /\ UNCHANGED <<pc, operation_status, outcome, seen, polled>>
                     ELSE \/ /\ operation_status' = Recorded(operation_status, p, ops[k].status)
                             /\ seen' = IF ops[k].status \in {"DONE", "ABORTING"}
                                          THEN [seen EXCEPT ![k] = ops[k].status]
                                          ELSE seen
                             /\ polled' = polled \cup {p}
                             /\ i' = i + 1
                             /\ UNCHANGED <<pc, outcome>>
                          \/ /\ Return("False", "exception")
                             /\ seen' = [seen EXCEPT ![k] = "EXC"]
                             /\ polled' = polled \cup {p}
                             /\ UNCHANGED <<operation_status, i>>
  /\ UNCHANGED <<args, env, ops, pools_to_scale, operations, cluster_disks,
                 natLocals, submitted>>

\* if not all(...): time.sleep(10)
sc_round_end ==
  /\ pc = "sc_round_end"
  /\ pc' = IF AllDone(operation_status) THEN "sc_while" ELSE "sc_sleep"
  /\ UNCHANGED <<args, env, ops, scaleLocals, i, cluster_disks, natLocals,
                 outcome, submitted, seen, polled>>

sc_sleep ==
  /\ pc = "sc_sleep"
  /\ pc' = "sc_while"
  /\ UNCHANGED <<args, env, ops, scaleLocals, i, cluster_disks, natLocals,
                 outcome, submitted, seen, polled>>

\* all_success and the two returns
sc_result ==
  /\ pc = "sc_result"
  /\ IF AllSuccess(operation_status)
       THEN Return("True", None)
       ELSE Return("False", "some_failed")
  /\ UNCHANGED <<args, env, ops, scaleLocals, i, cluster_disks, natLocals,
                 submitted, seen, polled>>


\* ------------------------------------------------------------ polling
\* what a poll that returned a status adds to the history: a terminal
\* status the program has now seen
Observe(k) ==
  IF ops[k].status \in {"DONE", "ABORTING"}
    THEN [seen EXCEPT ![k] = ops[k].status]
    ELSE seen

\* the query raised
ObserveError(k) == [seen EXCEPT ![k] = "EXC"]

\* ------------------------------------------------------------ delete_cluster
\* faulty variant: the wait for the cluster deletion ends at the first status read
ClusterDeleted_AnyStatus(status) == status \in {"PENDING", "RUNNING", "DONE"}

\* current_op.status == container_v1.Operation.Status.DONE
ClusterDeleted(status) == status = "DONE"

\* current_op.status == container_v1.Operation.Status.ABORTING
ClusterDeleteFailed(status) == status = "ABORTING"

\* faulty variant: the wait for a disk ends at the first status read
DiskDeleted_AnyStatus(status) == status \in {"PENDING", "RUNNING", "DONE"}

\* result.status == compute_v1.Operation.Status.DONE, disk loop
DiskDeleted(status) == status = "DONE"

\* faulty variant: the wait for the NAT removal ends at the first status read
NatRemoved_AnyStatus(status) == status \in {"PENDING", "RUNNING", "DONE"}

\* result.status == compute_v1.Operation.Status.DONE, NAT removal loop
NatRemoved(status) == status = "DONE"

\* result.status == compute_v1.Operation.Status.DONE, router deletion loop
RouterDeleted(status) == status = "DONE"

\* cluster_manager_client.delete_cluster: the first statement that acts
del_submit ==
  /\ pc = "del_submit"
  /\ submitted' = Submit(DELETE_CLUSTER, 0)
  /\ \/ /\ clusterStatus # "NOT_FOUND"
        /\ ops' = [ops EXCEPT ![DELETE_CLUSTER] = Pending]
        /\ pc' = "del_poll"
        /\ UNCHANGED outcome
     \/ /\ Return("False", "exception")
        /\ UNCHANGED ops
  /\ UNCHANGED <<args, env, scaleLocals, i, cluster_disks, natLocals, seen, polled>>

del_poll ==
  /\ pc = "del_poll"
  /\ \/ /\ seen' = Observe(DELETE_CLUSTER)
        /\ IF ClusterDeleted(ops[DELETE_CLUSTER].status)
             THEN pc' = "disk_list" /\ UNCHANGED outcome
             ELSE IF ClusterDeleteFailed(ops[DELETE_CLUSTER].status)
                    THEN Return("False", "delete_failed")
                    ELSE pc' = "del_sleep" /\ UNCHANGED outcome
     \/ /\ seen' = ObserveError(DELETE_CLUSTER)
        /\ Return("False", "exception")
  /\ UNCHANGED <<args, env, ops, scaleLocals, i, cluster_disks, natLocals,
                 submitted, polled>>

del_sleep ==
  /\ pc = "del_sleep"
  /\ pc' = "del_poll"
  /\ UNCHANGED <<args, env, ops, scaleLocals, i, cluster_disks, natLocals,
                 outcome, submitted, seen, polled>>

\* disks_client.list and the name filter
disk_list ==
  /\ pc = "disk_list"
  /\ \/ /\ cluster_disks' = ClusterDisks(zoneDisks)
        /\ i' = 1
        /\ pc' = IF cluster_disks' # <<>> THEN "disk_delete" ELSE "rt_get"
        /\ UNCHANGED message
     \/ /\ message' = "disk_list_failed"
        /\ pc' = "rt_get"
        /\ UNCHANGED <<cluster_disks, i>>
  /\ UNCHANGED <<args, env, ops, scaleLocals, natLocals, result, exit_code,
                 submitted, seen, polled>>

\* faulty variant: the try/except encloses the disk loop, so the first
\* disk that cannot be deleted ends the disk stage
disk_delete_Abort ==
  /\ pc = "disk_delete"
  /\ IF i > Len(cluster_disks)
       THEN /\ pc' = "rt_get"
            /\ UNCHANGED <<ops, i, message, submitted>>
       ELSE LET k == DiskOp(DiskIdx(cluster_disks[i]))
            IN  /\ submitted' = Submit(k, 0)
                /\ \/ /\ ops' = [ops EXCEPT ![k] = Pending]
                      /\ pc' = "disk_poll"
                      /\ UNCHANGED <<i, message>>
                   \/ /\ message' = "disk_failed"
                      /\ pc' = "rt_get"
                      /\ UNCHANGED <<ops, i>>
  /\ UNCHANGED <<args, env, scaleLocals, cluster_disks, natLocals, result,
                 exit_code, seen, polled>>

\* for disk_name in cluster_disks: disks_client.delete
disk_delete ==
  /\ pc = "disk_delete"
  /\ IF i > Len(cluster_disks)
       THEN /\ pc' = "rt_get"
            /\ UNCHANGED <<ops, i, message, submitted>>
       ELSE LET k == DiskOp(DiskIdx(cluster_disks[i]))
            IN  /\ submitted' = Submit(k, 0)
                /\ \/ /\ ops' = [ops EXCEPT ![k] = Pending]
                      /\ pc' = "disk_poll"
                      /\ UNCHANGED <<i, message>>
                   \/ /\ message' = "disk_failed"
                      /\ i' = i + 1
                      /\ UNCHANGED <<ops, pc>>
  /\ UNCHANGED <<args, env, scaleLocals, cluster_disks, natLocals, result,
                 exit_code, seen, polled>>

disk_poll ==
  /\ pc = "disk_poll"
  /\ LET k == DiskOp(DiskIdx(cluster_disks[i]))
     IN  \/ /\ seen' = Observe(k)
            /\ IF DiskDeleted(ops[k].status)
                 THEN pc' = "disk_delete" /\ i' = i + 1
                 ELSE pc' = "disk_sleep" /\ UNCHANGED i
            /\ UNCHANGED message
         \/ /\ seen' = ObserveError(k)
            /\ message' = "disk_failed"
            /\ i' = i + 1
            /\ pc' = "disk_delete"
  /\ UNCHANGED <<args, env, ops, scaleLocals, cluster_disks, natLocals,
                 result, exit_code, submitted, polled>>

disk_sleep ==
  /\ pc = "disk_sleep"
  /\ pc' = "disk_poll"
  /\ UNCHANGED <<args, env, ops, scaleLocals, i, cluster_disks, natLocals,
                 outcome, submitted, seen, polled>>

\* routers_client.get
rt_get ==
  /\ pc = "rt_get"
  /\ \/ /\ routerExists
        /\ pc' = "rt_patch"
        /\ UNCHANGED message
     \/ /\ message' = "nat_cleanup_failed"
        /\ pc' = "del_done"
  /\ UNCHANGED <<args, env, ops, scaleLocals, i, cluster_disks, natLocals,
                 result, exit_code, submitted, seen, polled>>

\* router.nats = []; routers_client.patch
rt_patch ==
  /\ pc = "rt_patch"
  /\ submitted' = Submit(PATCH_ROUTER, 0)
  /\ \/ /\ ops' = [ops EXCEPT ![PATCH_ROUTER] = Pending]
        /\ pc' = "natrm_poll"
        /\ UNCHANGED message
     \/ /\ message' = "nat_cleanup_failed"
        /\ pc' = "del_done"
        /\ UNCHANGED ops
  /\ UNCHANGED <<args, env, scaleLocals, i, cluster_disks, natLocals, result,
                 exit_code, seen, polled>>

natrm_poll ==
  /\ pc = "natrm_poll"
  /\ \/ /\ seen' = Observe(PATCH_ROUTER)
        /\ pc' = IF NatRemoved(ops[PATCH_ROUTER].status) THEN "rt_delete" ELSE "natrm_sleep"
        /\ UNCHANGED message
     \/ /\ seen' = ObserveError(PATCH_ROUTER)
        /\ message' = "nat_cleanup_failed"
        /\ pc' = "del_done"
  /\ UNCHANGED <<args, env, ops, scaleLocals, i, cluster_disks, natLocals,
                 result, exit_code, submitted, polled>>

natrm_sleep ==
  /\ pc = "natrm_sleep"
  /\ pc' = "natrm_poll"
  /\ UNCHANGED <<args, env, ops, scaleLocals, i, cluster_disks, natLocals,
                 outcome, submitted, seen, polled>>

\* routers_client.delete
rt_delete ==
  /\ pc = "rt_delete"
  /\ submitted' = Submit(DELETE_ROUTER, 0)
  /\ \/ /\ ops' = [ops EXCEPT ![DELETE_ROUTER] = Pending]
        /\ pc' = "rtdel_poll"
        /\ UNCHANGED message
     \/ /\ message' = "nat_cleanup_failed"
        /\ pc' = "del_done"
        /\ UNCHANGED ops
  /\ UNCHANGED <<args, env, scaleLocals, i, cluster_disks, natLocals, result,
                 exit_code, seen, polled>>

rtdel_poll ==
  /\ pc = "rtdel_poll"
  /\ \/ /\ seen' = Observe(DELETE_ROUTER)
        /\ pc' = IF RouterDeleted(ops[DELETE_ROUTER].status) THEN "del_done" ELSE "rtdel_sleep"
        /\ UNCHANGED message
     \/ /\ seen' = ObserveError(DELETE_ROUTER)
        /\ message' = "nat_cleanup_failed"
        /\ pc' = "del_done"
  /\ UNCHANGED <<args, env, ops, scaleLocals, i, cluster_disks, natLocals,
                 result, exit_code, submitted, polled>>

rtdel_sleep ==
  /\ pc = "rtdel_sleep"
  /\ pc' = "rtdel_poll"
  /\ UNCHANGED <<args, env, ops, scaleLocals, i, cluster_disks, natLocals,
                 outcome, submitted, seen, polled>>

\* faulty variant: a cleanup stage that failed makes delete_cluster return
\* False
del_done_Strict ==
  /\ pc = "del_done"
  /\ IF message = None THEN Return("True", message) ELSE Return("False", message)
  /\ UNCHANGED <<args, env, ops, scaleLocals, i, cluster_disks, natLocals,
                 submitted, seen, polled>>

\* "Cleanup Complete!" and return True, whatever the cleanup stages did
del_done ==
  /\ pc = "del_done"
  /\ Return("True", message)
  /\ UNCHANGED <<args, env, ops, scaleLocals, i, cluster_disks, natLocals,
                 submitted, seen, polled>>


\* ------------------------------------------------------------ create_cloud_nat
\* faulty variant: the wait for the router ends at the first status read
RouterCreated_AnyStatus(status) == status \in {"PENDING", "RUNNING", "DONE"}

\* result.status == compute_v1.Operation.Status.DONE, router creation loop
RouterCreated(status) == status = "DONE"

\* faulty variant: any NAT on the router counts as this cluster's
NatExists_Any(nats) == nats # {}

\* for nat in existing_router.nats: if nat.name == nat_name
NatExists(nats) == nat_name \in nats

\* routers_client.get: the router and its NAT are there already, or not
nat_get ==
  /\ pc = "nat_get"
  /\ \/ /\ routerExists
        /\ existing_router' = [bound |-> TRUE, nats |-> routerNats]
        /\ IF NatExists(routerNats)
             THEN nat_success' = "True" /\ pc' = "cc_finish"
             ELSE pc' = "nat_insert" /\ UNCHANGED nat_success
     \/ /\ pc' = "nat_insert"
        /\ UNCHANGED <<nat_success, existing_router>>
  /\ UNCHANGED <<args, env, ops, scaleLocals, i, cluster_disks, outcome,
                 submitted, seen, polled>>

\* routers_client.insert
nat_insert ==
  /\ pc = "nat_insert"
  /\ submitted' = Submit(INSERT_ROUTER, 0)
  /\ \/ /\ ops' = [ops EXCEPT ![INSERT_ROUTER] = Pending]
        /\ pc' = "nat_poll"
        /\ UNCHANGED <<nat_success, message>>
     \/ /\ nat_success' = "False"
        /\ message' = "nat_failed"
        /\ pc' = "cc_finish"
        /\ UNCHANGED ops
  /\ UNCHANGED <<args, env, scaleLocals, i, cluster_disks, existing_router,
                 result, exit_code, seen, polled>>

nat_poll ==
  /\ pc = "nat_poll"
  /\ \/ /\ seen' = Observe(INSERT_ROUTER)
        /\ pc' = IF RouterCreated(ops[INSERT_ROUTER].status) THEN "nat_gcloud" ELSE "nat_sleep"
        /\ UNCHANGED <<nat_success, message>>
     \/ /\ seen' = ObserveError(INSERT_ROUTER)
        /\ nat_success' = "False"
        /\ message' = "nat_failed"
        /\ pc' = "cc_finish"
  /\ UNCHANGED <<args, env, ops, scaleLocals, i, cluster_disks,
                 existing_router, result, exit_code, submitted, polled>>

nat_sleep ==
  /\ pc = "nat_sleep"
  /\ pc' = "nat_poll"
  /\ UNCHANGED <<args, env, ops, scaleLocals, i, cluster_disks, natLocals,
                 outcome, submitted, seen, polled>>

\* gcloud compute routers nats create, by subprocess
nat_gcloud ==
  /\ pc = "nat_gcloud"
  /\ submitted' = Submit(CREATE_NAT, 0)
  /\ \/ /\ nat_success' = "True"
        /\ UNCHANGED message
     \/ /\ nat_success' = "False"
        /\ message' = "nat_failed"
  /\ pc' = "cc_finish"
  /\ UNCHANGED <<args, env, ops, scaleLocals, i, cluster_disks,
                 existing_router, result, exit_code, seen, polled>>

\* ------------------------------------------------------------ create_gke_cluster
\* current_op.status == container_v1.Operation.Status.DONE
ClusterCreated(status) == status = "DONE"

\* current_op.status == container_v1.Operation.Status.ABORTING
ClusterCreateFailed(status) == status = "ABORTING"

\* cluster_manager_client.create_cluster
cc_submit ==
  /\ pc = "cc_submit"
  /\ submitted' = Submit(CREATE_CLUSTER, 0)
  /\ \/ /\ ops' = [ops EXCEPT ![CREATE_CLUSTER] = Pending]
        /\ pc' = "cc_poll"
        /\ UNCHANGED outcome
     \/ /\ Return("False", "exception")
        /\ UNCHANGED ops
  /\ UNCHANGED <<args, env, scaleLocals, i, cluster_disks, natLocals, seen, polled>>

cc_poll ==
  /\ pc = "cc_poll"
  /\ \/ /\ seen' = Observe(CREATE_CLUSTER)
        /\ IF ClusterCreated(ops[CREATE_CLUSTER].status)
             THEN pc' = "cc_get" /\ UNCHANGED outcome
             ELSE IF ClusterCreateFailed(ops[CREATE_CLUSTER].status)
                    THEN Return("False", "create_failed")
                    ELSE pc' = "cc_sleep" /\ UNCHANGED outcome
     \/ /\ seen' = ObserveError(CREATE_CLUSTER)
        /\ Return("False", "exception")
  /\ UNCHANGED <<args, env, ops, scaleLocals, i, cluster_disks, natLocals,
                 submitted, polled>>

cc_sleep ==
  /\ pc = "cc_sleep"
  /\ pc' = "cc_poll"
  /\ UNCHANGED <<args, env, ops, scaleLocals, i, cluster_disks, natLocals,
                 outcome, submitted, seen, polled>>

\* cluster_manager_client.get_cluster, then create_cloud_nat is entered
cc_get ==
  /\ pc = "cc_get"
  /\ \/ pc' = "nat_get" /\ UNCHANGED outcome
     \/ Return("False", "exception")
  /\ UNCHANGED <<args, env, ops, scaleLocals, i, cluster_disks, natLocals,
                 submitted, seen, polled>>

\* faulty variant: a failed NAT setup deletes the cluster again
cc_finish_Rollback ==
  /\ pc = "cc_finish"
  /\ IF nat_success = "True"
       THEN Return("True", message) /\ UNCHANGED submitted
       ELSE /\ Return("False", "nat_failed_rolled_back")
            /\ submitted' = Submit(DELETE_CLUSTER, 0)
  /\ UNCHANGED <<args, env, ops, scaleLocals, i, cluster_disks, natLocals,
                 seen, polled>>

\* nat_success is printed, never returned: return True
cc_finish ==
  /\ pc = "cc_finish"
  /\ Return("True", IF nat_success = "True" THEN message ELSE "nat_failed_cluster_ready")
  /\ UNCHANGED <<args, env, ops, scaleLocals, i, cluster_disks, natLocals,
                 submitted, seen, polled>>

\* ------------------------------------------------------------ specification
Program ==
  \/ main_dispatch \/ main_check \/ ls_list
  \/ sc_get \/ sc_submit \/ sc_while \/ sc_poll \/ sc_round_end \/ sc_sleep \/ sc_result
  \/ del_submit \/ del_poll \/ del_sleep
  \/ disk_list \/ disk_delete \/ disk_poll \/ disk_sleep
  \/ rt_get \/ rt_patch \/ natrm_poll \/ natrm_sleep
  \/ rt_delete \/ rtdel_poll \/ rtdel_sleep \/ del_done
  \/ cc_submit \/ cc_poll \/ cc_sleep \/ cc_get \/ cc_finish
  \/ nat_get \/ nat_insert \/ nat_poll \/ nat_sleep \/ nat_gcloud

Provider == \E k \in OpKeys : ProviderAdvance(k)

Next == Program \/ Provider

Spec == Init /\ [][Next]_vars

\* The interpreter keeps running the program: a step of the program that can
\* be taken is taken.  Nothing obliges the provider to move an operation.
FairSpec == Spec /\ WF_vars(Program)

\* The hypothesis of the drain's liveness: besides the program running, the
\* provider moves every resize operation in flight, so each one reaches a
\* terminal status.
DrainFairSpec ==
  Spec /\ WF_vars(Program) /\ \A k \in PoolOps : WF_vars(ProviderAdvance(k))


\* ------------------------------------------------------------ claims
Returned == pc \in {"main_check", "exit"}

\* C1: in Delete every disk-delete submission comes after the
\* cluster-delete operation has been seen DONE by a poll.
C1_DisksAfterClusterDeleted ==
  \A k \in DiskOps : Submitted(k) => seen[DELETE_CLUSTER] = "DONE"

C1_Witness == \E k \in DiskOps : Submitted(k) /\ ops[k].status # "NONE"

\* the stage of Delete a mutation belongs to
StageRank(k) ==
  CASE k = DELETE_CLUSTER -> 1
    [] k \in DiskOps -> 2
    [] k = PATCH_ROUTER -> 3
    [] k = DELETE_ROUTER -> 4
    [] OTHER -> 0

\* C2: Delete's cleanup stages follow disks -> NAT removal -> router
\* deletion and never overlap: submissions are in stage order, the NAT
\* patch is submitted only when every disk-delete issued has been seen DONE
\* or has errored (at submission or at a poll), and the router-delete only
\* when the NAT patch has been seen DONE.
C2_CleanupChain ==
  /\ \A m, n \in 1..Len(submitted) :
       m < n => StageRank(submitted[m].op) <= StageRank(submitted[n].op)
  /\ Submitted(PATCH_ROUTER) =>
       \A k \in DiskOps :
         Submitted(k) => ops[k].status = "NONE" \/ seen[k] \in {"DONE", "EXC"}
  /\ Submitted(DELETE_ROUTER) => seen[PATCH_ROUTER] = "DONE"

C2_Witness ==
  /\ Submitted(DELETE_ROUTER)
  /\ \E k \in DiskOps : seen[k] = "DONE"
  /\ \E k \in DiskOps : seen[k] = "EXC"

\* C3: in create_cloud_nat the NAT creation request is made only after the
\* router-create operation has been seen DONE.
C3_NatAfterRouterCreated ==
  Submitted(CREATE_NAT) => Submitted(INSERT_ROUTER) /\ seen[INSERT_ROUTER] = "DONE"

C3_Witness == Submitted(CREATE_NAT) /\ nat_success = "True"

\* a named filter is a non-empty name; it matches no pool of the cluster
GhostFilter ==
  /\ args.action = "scale"
  /\ Truthy(args.pool)
  /\ \A n \in 1..Len(node_pools) : node_pools[n] # args.pool

\* C4: Scale with a named pool filter that matches no node pool submits
\* nothing and returns failure, never success; on a running cluster that
\* answered, the failure is the pool-not-found one.
C4_GhostPoolNotFound ==
  GhostFilter =>
    /\ submitted = <<>>
    /\ result # "True"
    /\ Returned =>
         /\ result = "False"
         /\ message \in {"pool_not_found", "not_running", "cluster_not_found"}
         /\ (clusterStatus = "RUNNING" /\ message # "cluster_not_found")
              => message = "pool_not_found"

C4_Witness ==
  /\ GhostFilter
  /\ node_pools # <<>>
  /\ pc = "exit"
  /\ message = "pool_not_found"
  /\ exit_code = 1

\* C5: Scale on a cluster that is not RUNNING fails fast: nothing is ever
\* submitted and the result is failure.
C5_ScaleNeedsRunning ==
  (args.action = "scale" /\ clusterStatus # "RUNNING") =>
    /\ submitted = <<>>
    /\ result # "True"
    /\ Returned =>
         /\ result = "False"
         /\ message \in {"not_running", "cluster_not_found"}

C5_Witness ==
  /\ args.action = "scale"
  /\ clusterStatus = "PROVISIONING"
  /\ node_pools # <<>>
  /\ pc = "exit"
  /\ message = "not_running"

\* C6: Delete on a cluster that is not RUNNING fails fast and the
\* cluster-delete mutation is not submitted.
C6_DeleteNeedsRunning ==
  (args.action = "delete" /\ clusterStatus # "RUNNING") => ~Submitted(DELETE_CLUSTER)

\* the Scale stage exists: the cluster answered, was RUNNING, and the filter
\* (if any) matched
ScaleStageBuilt ==
  /\ args.action = "scale"
  /\ message \notin {"cluster_not_found", "not_running", "pool_not_found"}

\* C7: when scale_cluster returns from a built stage, the result is success
\* exactly when every targeted pool is recorded as success.
C7_AggregateIsAnd ==
  (ScaleStageBuilt /\ Returned) =>
    (result = "True" <=>
       \A n \in 1..Len(pools_to_scale) :
         /\ pools_to_scale[n] \in DOMAIN operation_status
         /\ operation_status[pools_to_scale[n]].success = "True")

C7_Witness ==
  /\ ScaleStageBuilt
  /\ pc = "exit"
  /\ result = "False"
  /\ \E p, q \in DOMAIN operation_status :
       /\ operation_status[p] = [done |-> TRUE, success |-> "True"]
       /\ operation_status[q] = [done |-> TRUE, success |-> "False"]

\* C8: in Scale's drain every unresolved pool is polled in every round,
\* whatever its siblings do, and no result is reported until every targeted
\* pool is resolved.
C8_DrainResolvesAll ==
  /\ pc = "sc_round_end" =>
       \A p \in DOMAIN operation_status : operation_status[p].done \/ p \in polled
  /\ (args.action = "scale" /\ Returned /\ DOMAIN operation_status # {}) =>
       \A n \in 1..Len(pools_to_scale) :
         /\ pools_to_scale[n] \in DOMAIN operation_status
         /\ operation_status[pools_to_scale[n]].done

\* C9: every poll loop terminates, so every invocation ends, although the
\* provider may never report a terminal status.
C9_InvocationEnds == <>(pc = "exit")

\* the positions of the poll loop that waits for operation k
PollLoop(k) ==
  CASE k = CREATE_CLUSTER -> {"cc_poll", "cc_sleep"}
    [] k = INSERT_ROUTER -> {"nat_poll", "nat_sleep"}
    [] k = DELETE_CLUSTER -> {"del_poll", "del_sleep"}
    [] k \in DiskOps -> {"disk_poll", "disk_sleep"}
    [] k = PATCH_ROUTER -> {"natrm_poll", "natrm_sleep"}
    [] k = DELETE_ROUTER -> {"rtdel_poll", "rtdel_sleep"}
    [] k \in PoolOps -> {"sc_while", "sc_poll", "sc_round_end", "sc_sleep"}

\* C10: a status query that raises is a non-terminal answer: after it the
\* program is still in that operation's poll loop (the poll is retried), the
\* member is not failed and the intent is not aborted.
C10_QueryErrorIsRetried ==
  \A k \in OpKeys : seen[k] = "EXC" => pc \in PollLoop(k) /\ result = None


\* the cluster-creation stage failed: the submission raised, or a poll was
\* answered with a failure (ABORTING, or DONE carrying an error)
ClusterStageFailed ==
  \/ Submitted(CREATE_CLUSTER) /\ ops[CREATE_CLUSTER].status = "NONE"
  \/ seen[CREATE_CLUSTER] = "ABORTING"
  \/ seen[CREATE_CLUSTER] = "DONE" /\ ops[CREATE_CLUSTER].error

\* C11: in Create, when the cluster-creation stage fails, no router-create
\* and no NAT-create request is ever issued, and Create returns failure.
C11_CreateFailureStopsNat ==
  (args.action = "create" /\ ClusterStageFailed) =>
    /\ ~Submitted(INSERT_ROUTER)
    /\ ~Submitted(CREATE_NAT)
    /\ Returned => result = "False"

\* C12: Create and Scale never roll back.  Create issues nothing but its
\* three forward requests, each at most once; Scale issues nothing but one
\* resize per pool, each carrying the target count: no delete, no second
\* resize that would revert a pool.
C12_NoRollback ==
  /\ \A m, n \in 1..Len(submitted) : submitted[m].op = submitted[n].op => m = n
  /\ args.action = "create" =>
       \A n \in 1..Len(submitted) :
         submitted[n].op \in {CREATE_CLUSTER, INSERT_ROUTER, CREATE_NAT}
  /\ args.action = "scale" =>
       \A n \in 1..Len(submitted) :
         /\ submitted[n].op \in PoolOps
         /\ submitted[n].node_count = args.nodes

\* the cluster was created, the NAT setup failed, Create has returned
C12_Witness ==
  /\ args.action = "create"
  /\ pc = "exit"
  /\ seen[CREATE_CLUSTER] = "DONE"
  /\ nat_success = "False"
  /\ Submitted(INSERT_ROUTER)

\* C13: when the cluster stage of Create succeeded and the NAT setup
\* failed, what Create returns differs from what it returns on a full
\* success (True, exit status 0).
C13_NatFailureInResult ==
  (args.action = "create" /\ Returned /\ seen[CREATE_CLUSTER] = "DONE"
     /\ nat_success = "False") =>
    /\ result # "True"
    /\ pc = "exit" => exit_code # 0

\* the deletion of disk k failed: its submission raised, its status query
\* raised, or its operation ended DONE with an error
DiskFailed(k) ==
  /\ Submitted(k)
  /\ \/ ops[k].status = "NONE"
     \/ seen[k] = "EXC"
     \/ seen[k] = "DONE" /\ ops[k].error

\* C14: in Delete, a disk whose deletion fails stops nothing: once the NAT
\* stage is entered, and when Delete returns, every disk found for the
\* cluster has had its delete submitted; the NAT stage is always entered,
\* and unless the NAT stage itself fails both the NAT patch and the router
\* delete are submitted.
C14_DiskFailureStopsNothing ==
  (args.action = "delete" /\ \E k \in DiskOps : DiskFailed(k)) =>
    /\ (pc \in {"rt_get", "rt_patch", "natrm_poll", "natrm_sleep", "rt_delete",
                "rtdel_poll", "rtdel_sleep", "del_done"} \/ Returned) =>
         \A n \in 1..Len(cluster_disks) : Submitted(DiskOp(DiskIdx(cluster_disks[n])))
    /\ Returned =>
         /\ result = "True"
         /\ message # "nat_cleanup_failed" =>
              Submitted(PATCH_ROUTER) /\ Submitted(DELETE_ROUTER)

\* the first disk's delete raised, the second was submitted after it and
\* deleted, and the NAT patch and router delete followed
C14_Witness ==
  /\ args.action = "delete"
  /\ pc = "exit"
  /\ Len(cluster_disks) >= 2
  /\ DiskFailed(DiskOp(DiskIdx(cluster_disks[1])))
  /\ seen[DiskOp(DiskIdx(cluster_disks[2]))] = "DONE"
  /\ ~ops[DiskOp(DiskIdx(cluster_disks[2]))].error
  /\ Submitted(PATCH_ROUTER)
  /\ Submitted(DELETE_ROUTER)

\* the NAT removal failed: the patch raised, or the query of its operation
\* raised
NatRemovalFailed ==
  /\ Submitted(PATCH_ROUTER)
  /\ ops[PATCH_ROUTER].status = "NONE" \/ seen[PATCH_ROUTER] = "EXC"

\* C15: in Delete a failed NAT removal does not halt the sequence: the
\* router deletion is still attempted before Delete returns.
C15_RouterDeleteAfterNatFailure ==
  (args.action = "delete" /\ Returned /\ NatRemovalFailed) => Submitted(DELETE_ROUTER)

\* the n-th disk found for the cluster, as an operation
ClusterDiskOp(n) == DiskOp(DiskIdx(cluster_disks[n]))

IntentFailed ==
  \/ result = "False"
  \/ args.action = "list" /\ message = "exception"

\* C17: the process exits with 0 exactly when the intent succeeded; a
\* failed intent exits non-zero.
C17_ExitSignalsFailure ==
  pc = "exit" => (exit_code = 0 <=> ~IntentFailed)

\* the pools Scale is asked to resize: the named one if the cluster has it,
\* all of them without a filter
Targets ==
  IF Truthy(args.pool)
    THEN IF \E n \in 1..Len(node_pools) : node_pools[n] = args.pool
           THEN <<args.pool>>
           ELSE <<>>
    ELSE node_pools

\* one resize per targeted pool, carrying the target count
ExpectedResizes ==
  [n \in 1..Len(Targets) |->
     [op |-> PoolOp(PoolIdx(Targets[n])), node_count |-> args.nodes]]

\* C18: Scale on a running cluster submits exactly one resize per targeted
\* pool, in order, each with the target count and none twice: what has been
\* submitted is always a prefix of that list, it is the whole list once the
\* drain has begun, and when every member was seen DONE the result is
\* success.
C18_OneResizePerTarget ==
  (args.action = "scale" /\ clusterStatus = "RUNNING") =>
    /\ Len(submitted) <= Len(ExpectedResizes)
    /\ \A n \in 1..Len(submitted) : submitted[n] = ExpectedResizes[n]
    /\ pc \in {"sc_while", "sc_poll", "sc_round_end", "sc_sleep", "sc_result"} =>
         Len(submitted) = Len(ExpectedResizes)
    /\ (Returned /\ Targets # <<>>
          /\ \A n \in 1..Len(Targets) : seen[ExpectedResizes[n].op] = "DONE") =>
         /\ Len(submitted) = Len(ExpectedResizes)
         /\ result = "True"

\* scenario A: no filter, two pools, target 5, both members succeed
C18_Witness ==
  /\ args = [action |-> "scale", nodes |-> 5, pool |-> None]
  /\ node_pools = <<"default-pool", "ml-pool">>
  /\ pc = "exit"
  /\ Len(submitted) = 2
  /\ result = "True"
  /\ exit_code = 0

\* C19: once a pool's member is recorded done it is not polled again and
\* its record (done, success) does not change.
C19_ResolutionMonotonic ==
  [][\A p \in DOMAIN operation_status :
       operation_status[p].done =>
         /\ operation_status'[p] = operation_status[p]
         /\ ~(p \in polled' /\ p \notin polled)]_vars

\* a later round has just skipped the first pool, resolved earlier, and is
\* about to poll the second
C19_Witness ==
  /\ pc = "sc_poll"
  /\ Len(operations) = 2
  /\ i = 2
  /\ polled = {}
  /\ operation_status[operations[1].pool].done
  /\ ~operation_status[operations[2].pool].done

\* C20: success is recorded only on the provider's terminal success.  Every
\* poll loop takes DONE as success, so an operation seen DONE carries no
\* error, and a pool recorded as success has an operation that is DONE
\* without error.
C20_SuccessOnlyOnProviderSuccess ==
  /\ \A k \in OpKeys : seen[k] = "DONE" => ~ops[k].error
  /\ \A n \in 1..Len(operations) :
       (/\ operations[n].pool \in DOMAIN operation_status
        /\ operation_status[operations[n].pool].success = "True") =>
         ops[operations[n].op] = [status |-> "DONE", error |-> FALSE]

\* the cluster-deletion stage failed: the submission raised, or a poll was
\* answered with a failure (ABORTING, or DONE carrying an error)
DeleteStageFailed ==
  \/ Submitted(DELETE_CLUSTER) /\ ops[DELETE_CLUSTER].status = "NONE"
  \/ seen[DELETE_CLUSTER] = "ABORTING"
  \/ seen[DELETE_CLUSTER] = "DONE" /\ ops[DELETE_CLUSTER].error

\* C21: in Delete, when the cluster-delete operation is reported failed, no
\* disk-delete, NAT-removal or router-delete request is ever submitted, and
\* Delete returns failure.
C21_DeleteFailureHalts ==
  (args.action = "delete" /\ DeleteStageFailed) =>
    /\ \A n \in 1..Len(submitted) : submitted[n].op = DELETE_CLUSTER
    /\ Returned => result = "False"

\* no status query of a resize operation has raised
QueriesSucceed == \A k \in PoolOps : seen[k] # "EXC"

\* scale_cluster has returned with every targeted pool recorded as done
DrainResolved ==
  /\ Returned
  /\ \A n \in 1..Len(pools_to_scale) :
       /\ pools_to_scale[n] \in DOMAIN operation_status
       /\ operation_status[pools_to_scale[n]].done

\* C22: when the provider brings every submitted resize operation to a
\* terminal status and no status query raises, a drain that has begun ends:
\* scale_cluster records every targeted pool as done and returns a result.
C22_DrainTerminates ==
  ([]QueriesSucceed) => ((pc = "sc_while") ~> DrainResolved)

\* two pools were drained over more than one round: one was seen DONE, the
\* other ABORTING, and Scale has returned
C22_Witness ==
  /\ pc = "exit"
  /\ Len(operations) = 2
  /\ QueriesSucceed
  /\ seen[operations[1].op] = "ABORTING"
  /\ seen[operations[2].op] = "DONE"
  /\ DrainResolved

\* a set_node_pool_size call raised: scale_cluster ended on an exception
\* that no status query threw
ResizeSubmitRaised ==
  /\ args.action = "scale"
  /\ Returned
  /\ message = "exception"
  /\ QueriesSucceed

\* C23: in Scale, when submitting the resize of one pool raises, the pools
\* whose resize was submitted before it are still polled until their own
\* terminal status is recorded.
C23_SubmitErrorSparesSiblings ==
  ResizeSubmitRaised =>
    \A n \in 1..Len(operations) :
      /\ operations[n].pool \in DOMAIN operation_status
      /\ operation_status[operations[n].pool].done

\* the zone lists disk j of the universe
InZone(j) == \E n \in 1..Len(zoneDisks) : zoneDisks[n] = DiskUniverse[j]

\* the name of disk j contains the cluster name
NameMatches(j) == Contains(DiskUniverse[j], cluster_name)

\* C24: Delete submits a disk-delete only for a disk the zone lists whose
\* name contains the cluster name, and each at most once; when the disk
\* stage ends after a listing that answered, every such disk has had its
\* delete submitted, also one that merely carries the cluster name inside
\* its own.
C24_DisksByNameSubstring ==
  args.action = "delete" =>
    /\ \A j \in 1..MaxDisks : Submitted(DiskOp(j)) => InZone(j) /\ NameMatches(j)
    /\ \A m, n \in 1..Len(submitted) :
         (submitted[m].op \in DiskOps /\ submitted[m].op = submitted[n].op) => m = n
    /\ ((pc = "rt_get" /\ message # "disk_list_failed") \/ (Returned /\ cluster_disks # <<>>)) =>
         \A j \in 1..MaxDisks : (InZone(j) /\ NameMatches(j)) => Submitted(DiskOp(j))

\* the zone held gke-c1-a, xc1 and c2: the first two were submitted, xc1
\* although it has no gke- prefix, c2 was not
C24_Witness ==
  /\ args.action = "delete"
  /\ pc = "exit"
  /\ Len(zoneDisks) = 3
  /\ Submitted(DiskOp(1))
  /\ Submitted(DiskOp(2))
  /\ ~Submitted(DiskOp(3))
  /\ seen[DiskOp(2)] = "DONE"

\* create_cloud_nat has returned (its value is in nat_success)
NatStageDone == args.action = "create" /\ nat_success # None

\* the get answered with a router that carries <cluster>-nat-config
RouterHasNat == existing_router.bound /\ nat_name \in existing_router.nats

\* create_cloud_nat issued no mutating request
NoNatMutation == ~Submitted(INSERT_ROUTER) /\ ~Submitted(CREATE_NAT)

\* the router path raised: the insert, or a query of its operation
RouterPathRaised ==
  /\ Submitted(INSERT_ROUTER)
  /\ ops[INSERT_ROUTER].status = "NONE" \/ seen[INSERT_ROUTER] = "EXC"

\* C25: create_cloud_nat returns success without a mutating request exactly
\* when routers_client.get answers with a router that already has the NAT
\* <cluster>-nat-config, and then the router and the NAT do exist; in every
\* other case, also when the router exists without that NAT, a
\* router-create is submitted, and before any NAT creation; a call that
\* raises on that path, or a NAT creation that fails, makes it return
\* failure, and after a raise the NAT creation is never attempted.
C25_NatSetupIdempotent ==
  /\ NatStageDone =>
       /\ (NoNatMutation /\ nat_success = "True") <=> RouterHasNat
       /\ NoNatMutation => routerExists /\ nat_name \in routerNats
       /\ ~(routerExists /\ nat_name \in routerNats) => Submitted(INSERT_ROUTER)
       /\ nat_success = "True" => RouterHasNat \/ Submitted(CREATE_NAT)
  /\ \A n \in 1..Len(submitted) :
       submitted[n].op = CREATE_NAT =>
         \E m \in 1..(n - 1) : submitted[m].op = INSERT_ROUTER
  /\ RouterPathRaised => nat_success = "False" /\ ~Submitted(CREATE_NAT)

\* the router was there without the NAT: the router-create was submitted
\* all the same and raised, the NAT creation was not attempted, and the
\* setup returned failure
C25_Witness ==
  /\ pc = "exit"
  /\ existing_router.bound
  /\ nat_name \notin existing_router.nats
  /\ RouterPathRaised
  /\ ops[INSERT_ROUTER].status = "NONE"
  /\ nat_success = "False"
  /\ ~Submitted(CREATE_NAT)

\* a cleanup stage of Delete failed: the disk listing, a disk deletion, the
\* NAT removal or the router deletion
CleanupFailed ==
  \/ message \in {"disk_list_failed", "disk_failed", "nat_cleanup_failed"}
  \/ \E k \in DiskOps : DiskFailed(k)
  \/ NatRemovalFailed

\* C26: what delete_cluster returns depends on the cluster-deletion stage
\* alone: when it has returned, the result is success exactly when the
\* cluster-delete operation was seen DONE, whatever failed in the disk
\* listing, the disk deletions, the NAT removal or the router deletion.
C26_ResultFromClusterStageOnly ==
  (args.action = "delete" /\ Returned) =>
    /\ result \in {"True", "False"}
    /\ result = "True" <=> seen[DELETE_CLUSTER] = "DONE"
    /\ (seen[DELETE_CLUSTER] = "DONE" /\ CleanupFailed) => result = "True"

\* the cluster was seen deleted, a disk deletion and the NAT cleanup failed,
\* and Delete exited with 0
C26_Witness ==
  /\ args.action = "delete"
  /\ pc = "exit"
  /\ seen[DELETE_CLUSTER] = "DONE"
  /\ \E k \in DiskOps : DiskFailed(k)
  /\ message = "nat_cleanup_failed"
  /\ result = "True"
  /\ exit_code = 0

\* Scale without a pool filter (no --pool, or an empty one) of a running
\* cluster that has no node pool
EmptyGroup ==
  /\ args.action = "scale"
  /\ ~Truthy(args.pool)
  /\ clusterStatus = "RUNNING"
  /\ node_pools = <<>>

\* C27: Scale without a pool filter on a running cluster without node pools
\* submits nothing, polls no operation (the poll loop's body is never
\* entered) and, the cluster having answered, returns success.
C27_EmptyGroupSucceeds ==
  EmptyGroup =>
    /\ submitted = <<>>
    /\ operations = <<>>
    /\ polled = {}
    /\ \A k \in OpKeys : seen[k] = "NONE"
    /\ pc \notin {"sc_poll", "sc_round_end", "sc_sleep"}
    /\ (Returned /\ message # "cluster_not_found") => result = "True" /\ message = None
    /\ (pc = "exit" /\ message # "cluster_not_found") => exit_code = 0

\* the empty group was built and resolved, and the command exited with 0
C27_Witness ==
  /\ EmptyGroup
  /\ pc = "exit"
  /\ DOMAIN operation_status = {}
  /\ result = "True"
  /\ exit_code = 0

====
